---- MODULE Spec2Model ----
(***************************************************************************)
(* RouteBoxer (rboxer): mkBox -> RouteBoxer.box -> buildGrid_,             *)
(* findIntersectingCells_, mergeIntersectingCells_.                        *)
(*                                                                         *)
(* Numbers.  The program works on IEEE doubles and on the rhumb-line       *)
(* formulae of a sphere.  The model works on a plane, in exact fixed-point *)
(* arithmetic: a coordinate is an integer count of half units (the caller  *)
(* passes whole units, so the centre of the route bounds, a half, is       *)
(* exact), one unit of distance moves a point by one half unit of latitude *)
(* or of longitude (the Mercator stretch factor q of rhumbDestinationPoint *)
(* is 1), and a bearing is the direction pair <<dLon, dPhi>> that          *)
(* rhumbBearingTo hands to atan2.  The longitude of a point where a        *)
(* segment crosses a grid line is a fraction: a point carries the          *)
(* denominator of its longitude (den, 1 for vertices and grid lines).      *)
(* JavaScript's reads outside an array (undefined), writes outside an      *)
(* array and writes through undefined (TypeError) are kept.                *)
(***************************************************************************)
EXTENDS Integers, Sequences, FiniteSets, TLC

\* ---------------------------------------------------------------- bounds
\* caller latitudes are the whole units 0..MaxLat, longitudes 0..MaxLng
MaxLat == 2
MaxLng == 2
\* a route has at most MaxVertices points
MaxVertices == 3
\* the distances a caller passes are 1..MaxDis
MaxDis == 3
\* a growth loop of buildGrid_ is followed until its array holds MaxLines lines
MaxLines == 13

\* mkBox's default distance
DefaultDis == 20

\* ---------------------------------------------------------------- numbers
Min(a, b) == IF a < b THEN a ELSE b
Max(a, b) == IF a > b THEN a ELSE b
Abs(a) == IF a < 0 THEN -a ELSE a

\* a whole unit in the fixed-point representation (half units)
Fix(c) == 2 * c

\* JavaScript's %: the remainder has the sign of the dividend
JsMod(a, m) == IF a >= 0 THEN a % m ELSE -((-a) % m)

\* pi (half a turn) and pi/2 in fixed-point degrees
Pi == Fix(180)
HalfPi == Fix(90)

\* ---------------------------------------------------------------- LatLng
\* what a caller passes for a latitude or a longitude is a whole unit (0, 1, ...) or
\* a value that is not a number, written NaN
NaN == -1

\* isNaN that lets every value through
isNaNNever(v) == FALSE

\* isNaN(v)
isNaN(v) == v = NaN

\* new LatLng(pt[0], pt[1]) throws 'Invalid LatLng object'
InvalidLatLng(pt) == isNaN(pt[1]) \/ isNaN(pt[2])

\* new LatLng(lat, lng): lat and lng in fixed point, den the denominator of lng
LatLng(lat, lng) == [lat |-> lat, lng |-> lng, den |-> 1]

\* a.lng < b.lng and a.lng > b.lng on fractions (den > 0)
LngLess(a, b) == a.lng * b.den < b.lng * a.den
LngGreater(a, b) == LngLess(b, a)

\* the four bearings buildGrid_ uses, as direction pairs <<sin, cos>>
North == <<0, 1>>
East == <<1, 0>>
South == <<0, -1>>
West == <<-1, 0>>

\* null, as a point: den = 0
NullLatLng == [lat |-> 0, lng |-> 0, den |-> 0]

\* dPhi = Math.log(Math.tan(lat2 / 2 + pi / 4) / Math.tan(lat1 / 2 + pi / 4)) is NaN:
\* with lat1 between the poles the second tangent is positive, and the first is
\* negative when lat2 lies between a quarter and three quarters of a turn
DPhiIsNaN(lat2) == Abs(lat2) > HalfPi /\ Abs(lat2) < 3 * HalfPi

\* LatLng.prototype.rhumbDestinationPoint with a cardinal bearing: lat2 = lat1 +
\* d cos(brng), past-the-pole reflection, lon2 = (lon1 + dLon + pi) % 2pi - pi.
\* A NaN dPhi makes q, dLon and lon2 NaN, and the function returns null.
rhumbDestinationPoint(p, brng, dist) ==
    LET lat2 == p.lat + dist * brng[2]
        dLon == dist * brng[1]
        lat2r == IF Abs(lat2) > HalfPi
                 THEN (IF lat2 > 0 THEN Pi - lat2 ELSE -(Pi - lat2))
                 ELSE lat2
        lon2 == JsMod(p.lng + dLon + Pi, 2 * Pi) - Pi
    IN IF DPhiIsNaN(lat2) THEN NullLatLng ELSE LatLng(lat2r, lon2)

\* LatLng.prototype.rhumbBearingTo: the pair atan2 receives
rhumbBearingTo(from, dest) == <<dest.lng - from.lng, dest.lat - from.lat>>

\* ---------------------------------------------------------------- LatLngBounds
\* a box is <<>> (no corners yet) or <<[sw, ne]>>
NoBounds == << >>

\* LatLngBounds.prototype.extend(latlng)
extend(b, p) ==
    IF b = NoBounds
    THEN << [sw |-> LatLng(p.lat, p.lng), ne |-> LatLng(p.lat, p.lng)] >>
    ELSE << [sw |-> LatLng(Min(p.lat, b[1].sw.lat), Min(p.lng, b[1].sw.lng)),
             ne |-> LatLng(Max(p.lat, b[1].ne.lat), Max(p.lng, b[1].ne.lng))] >>

\* new LatLngBounds(corner1, corner2)
LatLngBounds(corner1, corner2) == extend(extend(NoBounds, corner1), corner2)

RECURSIVE ExtendAll(_, _, _)
ExtendAll(b, vs, i) ==
    IF i > Len(vs) THEN b ELSE ExtendAll(extend(b, vs[i]), vs, i + 1)

\* LatLngBounds.prototype.getCenter
getCenter(b) ==
    LatLng((b[1].sw.lat + b[1].ne.lat) \div 2, (b[1].sw.lng + b[1].ne.lng) \div 2)

\* ---------------------------------------------------------------- arrays
\* a[i] of a JavaScript array of numbers, i counted from 0; Undef outside
InRange(a, i) == i >= 0 /\ i < Len(a)
\* a[i] < v and a[i] > v: false when a[i] is undefined
ElemLess(a, i, v) == InRange(a, i) /\ a[i + 1] < v
\* a[i] > v with >= for >
ElemGreaterOrEqual(a, i, v) == InRange(a, i) /\ a[i + 1] >= v
ElemGreater(a, i, v) == InRange(a, i) /\ a[i + 1] > v
\* the same against the longitude of a point (a fraction)
ElemLessLng(a, i, p) == InRange(a, i) /\ a[i + 1] * p.den < p.lng
ElemGreaterLng(a, i, p) == InRange(a, i) /\ a[i + 1] * p.den > p.lng

\* ---------------------------------------------------------------- buildGrid_
\* a grid-line array while buildGrid_ runs: ok FALSE once a statement has thrown
Grown(lines, ok) == [lines |-> lines, ok |-> ok]

\* lines.push(routeBoundsCenter.rhumbDestinationPoint(brng, range * i).lat or .lng):
\* reading .lat or .lng of null is a TypeError
GrowUp(lines, c, brng, range, i) ==
    LET p == rhumbDestinationPoint(c, brng, range * i)
    IN IF p.den = 0 THEN Grown(lines, FALSE)
       ELSE Grown(Append(lines, IF brng = North THEN p.lat ELSE p.lng), TRUE)

\* lines.unshift(routeBoundsCenter.rhumbDestinationPoint(brng, range * i).lat or .lng)
GrowDown(lines, c, brng, range, i) ==
    LET p == rhumbDestinationPoint(c, brng, range * i)
    IN IF p.den = 0 THEN Grown(lines, FALSE)
       ELSE Grown(<<IF brng = South THEN p.lat ELSE p.lng>> \o lines, TRUE)

routeBoundsOf(vs) == ExtendAll(NoBounds, vs, 1)

\* the two pushes before the loop to the north: the centre and the first line
LatLines(old, vs, range) ==
    LET c == getCenter(routeBoundsOf(vs))
    IN GrowUp(Append(old, c.lat), c, North, range, 1)

\* the two pushes before the loop to the east
LngLines(old, vs, range) ==
    LET c == getCenter(routeBoundsOf(vs))
    IN GrowUp(Append(old, c.lng), c, East, range, 1)

\* this.grid_: <<>> is null; otherwise one entry per column, an array of length
\* len whose properties in ones hold 1 (the others are holes)
NullGrid == << >>

\* the allocation with the first entry of every column marked
NewGridMarked(nx, ny) == [x \in 1..nx |-> [len |-> ny, ones |-> {0}]]

\* the allocation with one entry per cell instead of one per line
NewGridOfCells(nx, ny) == [x \in 1..(nx - 1) |-> [len |-> ny - 1, ones |-> {}]]

\* this.grid_ = new Array(nx), this.grid_[i] = new Array(ny)
NewGrid(nx, ny) == [x \in 1..nx |-> [len |-> ny, ones |-> {}]]

\* ---------------------------------------------------------------- cells
\* getCellCoords_: brute-force scan from index 0
RECURSIVE ScanLng(_, _, _)
ScanLng(a, x, p) == IF ElemLessLng(a, x, p) THEN ScanLng(a, x + 1, p) ELSE x
RECURSIVE ScanLat(_, _, _)
ScanLat(a, y, p) == IF ElemLess(a, y, p.lat) THEN ScanLat(a, y + 1, p) ELSE y

getCellCoords_(lngs, lats, p) == <<ScanLng(lngs, 0, p) - 1, ScanLat(lats, 0, p) - 1>>

\* getGridCoordsFromHint_: the four directional loops
RECURSIVE HintUpLng(_, _, _)
HintUpLng(a, x, p) == IF ElemLessLng(a, x + 1, p) THEN HintUpLng(a, x + 1, p) ELSE x
RECURSIVE HintDownLng(_, _, _)
HintDownLng(a, x, p) == IF ElemGreaterLng(a, x, p) THEN HintDownLng(a, x - 1, p) ELSE x
RECURSIVE HintUpLat(_, _, _)
HintUpLat(a, y, p) == IF ElemLess(a, y + 1, p.lat) THEN HintUpLat(a, y + 1, p) ELSE y
RECURSIVE HintDownLat(_, _, _)
HintDownLat(a, y, p) == IF ElemGreater(a, y, p.lat) THEN HintDownLat(a, y - 1, p) ELSE y

getGridCoordsFromHint_(lngs, lats, p, hintp, hint) ==
    << IF LngGreater(p, hintp) THEN HintUpLng(lngs, hint[1], p)
                               ELSE HintDownLng(lngs, hint[1], p),
       IF p.lat > hintp.lat THEN HintUpLat(lats, hint[2], p)
                            ELSE HintDownLat(lats, hint[2], p) >>

\* ---------------------------------------------------------------- marking
\* The effect of a piece of the rasterisation on grid_: g the grid so far, ok
\* FALSE once a statement has thrown (the writes before it stay), direct the cells
\* markCell_ was called for.
Marking(g, ok) == [g |-> g, ok |-> ok, direct |-> {}]

\* this.grid_[x][y] = 1: a TypeError when grid_[x] is undefined; a write at or
\* past the length extends the array, a write at -1 only sets a property
SetCell(m, x, y) ==
    IF ~m.ok THEN m
    ELSE IF ~InRange(m.g, x) THEN [m EXCEPT !.ok = FALSE]
    ELSE [m EXCEPT !.g[x + 1] = [len |-> IF y >= @.len THEN y + 1 ELSE @.len,
                                 ones |-> @.ones \cup {y}]]

\* markCell_: the nine assignments, in the order of the source
markCell_(m, cell) ==
    LET x == cell[1]
        y == cell[2]
        m0 == IF m.ok THEN [m EXCEPT !.direct = @ \cup {cell}] ELSE m
        r1 == SetCell(SetCell(SetCell(m0, x - 1, y - 1), x, y - 1), x + 1, y - 1)
        r2 == SetCell(SetCell(SetCell(r1, x - 1, y), x, y), x + 1, y)
    IN SetCell(SetCell(SetCell(r2, x - 1, y + 1), x, y + 1), x + 1, y + 1)

\* fillInGridSquares_: for (x = startx; x <= endx; x++) or (x >= endx; x--)
RECURSIVE FillUp(_, _, _, _)
FillUp(m, x, endx, y) ==
    IF x <= endx /\ m.ok THEN FillUp(markCell_(m, <<x, y>>), x + 1, endx, y) ELSE m
RECURSIVE FillDown(_, _, _, _)
FillDown(m, x, endx, y) ==
    IF x >= endx /\ m.ok THEN FillDown(markCell_(m, <<x, y>>), x - 1, endx, y) ELSE m

\* fillInGridSquares_ that stops one cell short of endx
fillInGridSquaresShort_(m, startx, endx, y) ==
    IF startx < endx THEN FillUp(m, startx, endx - 1, y) ELSE FillDown(m, startx, endx + 1, y)

fillInGridSquares_(m, startx, endx, y) ==
    IF startx < endx THEN FillUp(m, startx, endx, y) ELSE FillDown(m, startx, endx, y)

\* getGridIntersect_: d = R (gridLineLat - start.lat) / cos(brng), then
\* start.rhumbDestinationPoint(brng, d).  R cancels; the point has latitude
\* gridLineLat and longitude start.lng + (gridLineLat - start.lat) dLon / dPhi,
\* normalised like every rhumbDestinationPoint.  cos(brng) = 0 gives a non-finite
\* d, hence null: the point with den = 0.
getGridIntersect_(start, brng, gridLineLat) ==
    LET dPhi == brng[2]
        den == Abs(dPhi)
        sgn == IF dPhi < 0 THEN -1 ELSE 1
        num == start.lng * den + (gridLineLat - start.lat) * brng[1] * sgn
    IN IF dPhi = 0 THEN [lat |-> gridLineLat, lng |-> 0, den |-> 0]
       ELSE [lat |-> gridLineLat,
             lng |-> JsMod(num + Pi * den, 2 * Pi * den) - Pi * den,
             den |-> den]

\* getGridIntersects_, south-to-north: for (i = startXY[1] + 1; i <= endXY[1]; i++)
RECURSIVE IntersectsUp(_, _, _, _, _, _, _, _, _)
IntersectsUp(m, lngs, lats, start, brng, hint, hintXY, endXY, i) ==
    IF ~m.ok THEN m
    ELSE IF i <= endXY[2]
    THEN LET line == IF InRange(lats, i) THEN lats[i + 1] ELSE 0
             edgePoint == getGridIntersect_(start, brng, line)
         IN IF ~InRange(lats, i) \/ edgePoint.den = 0 THEN [m EXCEPT !.ok = FALSE]
            ELSE LET edgeXY == getGridCoordsFromHint_(lngs, lats, edgePoint, hint, hintXY)
                 IN IntersectsUp(fillInGridSquares_(m, hintXY[1], edgeXY[1], i - 1),
                                 lngs, lats, start, brng, edgePoint, edgeXY, endXY, i + 1)
    ELSE fillInGridSquares_(m, hintXY[1], endXY[1], i - 1)

\* getGridIntersects_, north-to-south: for (i = startXY[1]; i > endXY[1]; i--)
RECURSIVE IntersectsDown(_, _, _, _, _, _, _, _, _)
IntersectsDown(m, lngs, lats, start, brng, hint, hintXY, endXY, i) ==
    IF ~m.ok THEN m
    ELSE IF i > endXY[2]
    THEN LET line == IF InRange(lats, i) THEN lats[i + 1] ELSE 0
             edgePoint == getGridIntersect_(start, brng, line)
         IN IF ~InRange(lats, i) \/ edgePoint.den = 0 THEN [m EXCEPT !.ok = FALSE]
            ELSE LET edgeXY == getGridCoordsFromHint_(lngs, lats, edgePoint, hint, hintXY)
                 IN IntersectsDown(fillInGridSquares_(m, hintXY[1], edgeXY[1], i),
                                   lngs, lats, start, brng, edgePoint, edgeXY, endXY, i - 1)
    ELSE fillInGridSquares_(m, hintXY[1], endXY[1], i)

getGridIntersects_(m, lngs, lats, start, end, startXY, endXY) ==
    LET brng == rhumbBearingTo(start, end)
    IN IF end.lat > start.lat
       THEN IntersectsUp(m, lngs, lats, start, brng, start, startXY, endXY, startXY[2] + 1)
       ELSE IntersectsDown(m, lngs, lats, start, brng, start, startXY, endXY, startXY[2])

\* the three-way classification of findIntersectingCells_'s loop body
SameCell(a, b) == a[1] = b[1] /\ a[2] = b[2]
\* the test that takes cells that touch at a corner for neighbours too
SharesEdgeOrCorner(a, b) ==
    Abs(a[1] - b[1]) <= 1 /\ Abs(a[2] - b[2]) <= 1 /\ a # b

SharesEdge(a, b) ==
    \/ (Abs(a[1] - b[1]) = 1 /\ a[2] = b[2])
    \/ (a[1] = b[1] /\ Abs(a[2] - b[2]) = 1)

\* the loop body that marks nothing for a cell that shares an edge with the last
VertexStepNoMark(m, lngs, lats, vs, i, hintXY) ==
    LET gridXY == getGridCoordsFromHint_(lngs, lats, vs[i + 1], vs[i], hintXY)
    IN IF SameCell(gridXY, hintXY) \/ SharesEdge(hintXY, gridXY) THEN m
       ELSE getGridIntersects_(m, lngs, lats, vs[i], vs[i + 1], hintXY, gridXY)

\* one iteration of findIntersectingCells_'s loop, for vertex i (counted from 0)
VertexStep(m, lngs, lats, vs, i, hintXY) ==
    LET gridXY == getGridCoordsFromHint_(lngs, lats, vs[i + 1], vs[i], hintXY)
    IN IF SameCell(gridXY, hintXY) THEN m
       ELSE IF SharesEdge(hintXY, gridXY) THEN markCell_(m, gridXY)
       ELSE getGridIntersects_(m, lngs, lats, vs[i], vs[i + 1], hintXY, gridXY)

\* ---------------------------------------------------------------- merging
\* the four grid lines getCellBounds_ reads are defined (else new LatLng throws)
CellInGrid(lngs, lats, cell) ==
    /\ InRange(lngs, cell[1]) /\ InRange(lngs, cell[1] + 1)
    /\ InRange(lats, cell[2]) /\ InRange(lats, cell[2] + 1)

\* getCellBounds_
getCellBounds_(lngs, lats, cell) ==
    LatLngBounds(LatLng(lats[cell[2] + 1], lngs[cell[1] + 1]),
                 LatLng(lats[cell[2] + 2], lngs[cell[1] + 2]))

\* the test of mergeBoxesX_'s loop: same rows, b ends where box starts
MatchesX(b, box) ==
    /\ b.ne.lng = box.sw.lng
    /\ b.sw.lat = box.sw.lat
    /\ b.ne.lat = box.ne.lat

\* the test of mergeBoxesY_'s loop: same columns, b ends where box starts
MatchesY(b, box) ==
    /\ b.ne.lat = box.sw.lat
    /\ b.sw.lng = box.sw.lng
    /\ b.ne.lng = box.ne.lng

\* the first index (from 1) of list whose box passes the test, 0 when none
RECURSIVE FirstMatchX(_, _, _)
FirstMatchX(list, box, i) ==
    IF i > Len(list) THEN 0
    ELSE IF MatchesX(list[i], box) THEN i ELSE FirstMatchX(list, box, i + 1)
RECURSIVE FirstMatchY(_, _, _)
FirstMatchY(list, box, i) ==
    IF i > Len(list) THEN 0
    ELSE IF MatchesY(list[i], box) THEN i ELSE FirstMatchY(list, box, i + 1)

\* mergeBoxesX_ on this.boxesX_ = list; cur is currentBox (NoBounds is null)
mergeBoxesX_(list, cur) ==
    IF cur = NoBounds THEN list
    ELSE LET i == FirstMatchX(list, cur[1], 1)
         IN IF i # 0 THEN [list EXCEPT ![i] = extend(<<@>>, cur[1].ne)[1]]
            ELSE Append(list, cur[1])

\* mergeBoxesY_ that appends every box
mergeBoxesYAppend_(list, cur) ==
    IF cur = NoBounds THEN list ELSE Append(list, cur[1])

\* mergeBoxesY_ on this.boxesY_ = list
mergeBoxesY_(list, cur) ==
    IF cur = NoBounds THEN list
    ELSE LET i == FirstMatchY(list, cur[1], 1)
         IN IF i # 0 THEN [list EXCEPT ![i] = extend(<<@>>, cur[1].ne)[1]]
            ELSE Append(list, cur[1])

\* grid_[x][y] is truthy
IsMarked(g, x, y) == InRange(g, x) /\ y \in g[x + 1].ones

\* the inner loop's body without the extension of the box under way
GrowBoxNoExtend(cur, lngs, lats, cell) ==
    IF cur # NoBounds THEN cur ELSE getCellBounds_(lngs, lats, cell)

\* GrowBox widening the box with min and max exchanged
GrowBoxSwapped(cur, lngs, lats, cell) ==
    IF cur # NoBounds
    THEN LET p == getCellBounds_(lngs, lats, cell)[1].ne
         IN << [sw |-> LatLng(Max(p.lat, cur[1].sw.lat), Max(p.lng, cur[1].sw.lng)),
                ne |-> LatLng(Min(p.lat, cur[1].ne.lat), Min(p.lng, cur[1].ne.lng))] >>
    ELSE getCellBounds_(lngs, lats, cell)

\* the body of the inner loop of either traversal on a marked cell
GrowBox(cur, lngs, lats, cell) ==
    IF cur # NoBounds
    THEN extend(cur, getCellBounds_(lngs, lats, cell)[1].ne)
    ELSE getCellBounds_(lngs, lats, cell)

\* ---------------------------------------------------------------- mkBox
\* the arguments of a call: pts is omitted, null or an array of [lat, lng]; dis is
\* omitted or a number
Omitted == [kind |-> "omitted", items |-> << >>]
Null == [kind |-> "null", items |-> << >>]
Array(items) == [kind |-> "array", items |-> items]
NoDis == [kind |-> "omitted", val |-> 0]
Num(n) == [kind |-> "number", val |-> n]

\* the parameter defaults pts = [], dis = 20
PtsParam(p) == IF p.kind = "omitted" THEN Array(<< >>) ELSE p
DisParam(d) == IF d.kind = "omitted" THEN DefaultDis ELSE d.val

\* the guard with pts.length >= 1
GuardOnePoint(p) == p.kind = "array" /\ Len(p.items) # 0 /\ Len(p.items) >= 1

\* pts && pts.length && pts.length >= 2
Guard(p) == p.kind = "array" /\ Len(p.items) # 0 /\ Len(p.items) >= 2

\* pts.map((pt) => new LatLng(pt[0], pt[1]))
ToLatLngs(items) == [k \in 1..Len(items) |-> LatLng(Fix(items[k][1]), Fix(items[k][2]))]

\* the range mkBox hands to RouteBoxer.box: RouteBoxer.box(lls, dis)
RangeArg(d) == d

\* box's first statements for the grid lines: this.latGrid_ = [], this.lngGrid_ = []
ResetLines(old) == << >>

\* box without the reset of a list of boxes
KeepBoxes(old) == old

\* box's first statements for the lists: this.boxesX_ = [], this.boxesY_ = []
ResetBoxes(old) == << >>

\* the return of box with < for <=, and with the longer list for the shorter
SelectStrict(bx, by) == IF Len(bx) < Len(by) THEN bx ELSE by
SelectLonger(bx, by) == IF Len(bx) >= Len(by) THEN bx ELSE by

\* the list box returns
Select(bx, by) == IF Len(bx) <= Len(by) THEN bx ELSE by

\* the map with the boxes in reverse order and longitude before latitude
ToArraysMixed(list) ==
    [k \in 1..Len(list) |->
        << <<list[Len(list) + 1 - k].sw.lng, list[Len(list) + 1 - k].sw.lat>>,
           <<list[Len(list) + 1 - k].ne.lng, list[Len(list) + 1 - k].ne.lat>> >>]

\* bounds.map(box => [[sw.lat, sw.lng], [ne.lat, ne.lng]])
ToArrays(list) ==
    [k \in 1..Len(list) |->
        << <<list[k].sw.lat, list[k].sw.lng>>, <<list[k].ne.lat, list[k].ne.lng>> >>]

\* a field that is emptied in place still refers to the array it referred to
SameArray(ref) == ref

\* this.boxesX_ = [], this.boxesY_ = []: the field refers to a new array, and to no
\* array that box returned before
FreshArray(ref) == "none"

\* the array h.list as its holder sees it when the fields hold bx and by
Seen(h, bx, by) ==
    [h EXCEPT !.list = IF h.ref = "boxesX_" THEN bx
                       ELSE IF h.ref = "boxesY_" THEN by ELSE @]

\* ---------------------------------------------------------------- state
VARIABLES
    pc,          \* where the program is: idle, build, north, south, east, west, first,
                 \* next, rows, cols, select,
                 \* done (mkBox returned), thrown (mkBox threw)
    pts, dis,    \* the arguments of the current (or last) call of mkBox
    vertices,    \* box: vertices
    range,       \* box: range
    grid_, latGrid_, lngGrid_, boxesX_, boxesY_,   \* the fields of L.RouteBoxer
    gi,          \* buildGrid_: i
    vi,          \* findIntersectingCells_: i
    hintXY,      \* findIntersectingCells_: hintXY
    direct,      \* history: the cells markCell_ was called for since the last vertex
    mx, my,      \* mergeIntersectingCells_: x, y
    currentBox,  \* mergeIntersectingCells_: currentBox
    result,      \* mkBox: boxes, the value returned
    saved,       \* history: <<>> or <<what an earlier call was given and what it gave>>
    handed       \* history: the array that box returned last, as its caller sees it
                 \* now (list), and the field of L.RouteBoxer that still refers to
                 \* it (ref: "boxesX_", "boxesY_" or "none")

fields == <<grid_, latGrid_, lngGrid_, boxesX_, boxesY_>>
findLocals == <<gi, vi, hintXY, direct>>
mergeLocals == <<mx, my, currentBox>>
vars == <<pc, pts, dis, vertices, range, grid_, latGrid_, lngGrid_, boxesX_, boxesY_,
          gi, vi, hintXY, direct, mx, my, currentBox, result, saved, handed>>

\* what callers pass
Coords == {<<la, ln>> : la \in (0..MaxLat) \cup {NaN}, ln \in (0..MaxLng) \cup {NaN}}
RECURSIVE SeqsOf(_, _)
SeqsOf(S, n) ==
    IF n = 0 THEN {<< >>}
    ELSE LET shorter == SeqsOf(S, n - 1)
         IN shorter \cup {Append(q, e) : q \in {r \in shorter : Len(r) = n - 1}, e \in S}
PtsArgs == {Omitted, Null} \cup {Array(q) : q \in SeqsOf(Coords, MaxVertices)}
DisArgs == {NoDis} \cup {Num(n) : n \in 1..MaxDis}

\* the arguments of the calls of a program that calls mkBox again and again; the
\* last three routes end at the pole (latitude 90), at the antimeridian
\* (longitude 180) and a degree from it
PoolArgs ==
    { <<Omitted, NoDis>>, <<Null, Num(2)>>, <<Array(<< <<1, 1>> >>), Num(2)>>,
      <<Array(<< <<1, 1>>, <<1, 1>> >>), Num(2)>>,
      <<Array(<< <<0, 2>>, <<2, 0>> >>), Num(3)>>,
      <<Array(<< <<0, 2>>, <<2, 0>> >>), NoDis>>,
      <<Array(<< <<0, 0>>, <<0, 1>>, <<2, 1>> >>), Num(3)>>,
      <<Array(<< <<1, 0>>, <<0, 1>>, <<1, 2>> >>), Num(2)>>,
      <<Array(<< <<1, 0>>, <<NaN, 1>>, <<1, 2>> >>), Num(2)>>,
      <<Array(<< <<89, 0>>, <<90, 1>> >>), Num(1)>>,
      <<Array(<< <<0, 179>>, <<0, 180>> >>), Num(3)>>,
      <<Array(<< <<0, 178>>, <<0, 179>> >>), Num(2)>>,
      <<Array(<< <<0, -179>>, <<0, -178>> >>), Num(2)>>,
      <<Array(<< <<0, 178>>, <<0, 179>>, <<4, 179>>, <<4, 178>>, <<4, 179>>, <<9, 179>>,
                 <<9, 178>> >>), Num(2)>> }

\* the object literal L.RouteBoxer and a program that has not called mkBox yet
Init ==
    /\ pc = "idle"
    /\ pts = Omitted /\ dis = NoDis
    /\ vertices = << >> /\ range = 0
    /\ grid_ = NullGrid /\ latGrid_ = << >> /\ lngGrid_ = << >>
    /\ boxesX_ = << >> /\ boxesY_ = << >>
    /\ gi = 0 /\ vi = 0 /\ hintXY = <<0, 0>> /\ direct = {}
    /\ mx = 0 /\ my = 0 /\ currentBox = NoBounds
    /\ result = << >>
    /\ saved = << >>
    /\ handed = [list |-> << >>, ref |-> "none"]

\* mkBox is called: boxes = [], the guard, the LatLngs (the first invalid one
\* throws out of pts.map, before box is called), and box's resets
MkBox(p, d) ==
    /\ pts' = p /\ dis' = d
    /\ result' = << >>
    /\ UNCHANGED <<findLocals, mergeLocals>>
    /\ IF Guard(PtsParam(p)) /\ \E k \in 1..Len(p.items) : InvalidLatLng(p.items[k])
       THEN /\ pc' = "thrown"
            /\ UNCHANGED <<fields, vertices, range, handed>>
       ELSE IF Guard(PtsParam(p))
       THEN /\ vertices' = ToLatLngs(PtsParam(p).items)
            /\ range' = RangeArg(DisParam(d))
            /\ grid_' = NullGrid
            /\ latGrid_' = ResetLines(latGrid_)
            /\ lngGrid_' = ResetLines(lngGrid_)
            /\ boxesX_' = ResetBoxes(boxesX_)
            /\ boxesY_' = ResetBoxes(boxesY_)
            /\ handed' = Seen([handed EXCEPT !.ref = FreshArray(@)], boxesX_', boxesY_')
            /\ pc' = "build"
       ELSE /\ pc' = "done"
            /\ UNCHANGED <<fields, vertices, range, handed>>

\* the first call of mkBox after the module is loaded, with any arguments
FirstCall ==
    /\ pc = "idle"
    /\ \E p \in PtsArgs, d \in DisArgs : MkBox(p, d)
    /\ UNCHANGED saved

\* what the caller may remember when it calls mkBox with the arguments a: what it
\* remembered before, or what the call that just ended was given and gave; other
\* tells whether a call with other arguments was made since
Remember(a) ==
    LET differs(r) == a[1] # r.pts \/ a[2] # r.dis
        kept == IF saved = << >> THEN {<< >>}
                ELSE {<< [saved[1] EXCEPT !.other = @ \/ differs(saved[1])] >>}
        last == [pts |-> pts, dis |-> dis, pc |-> pc, result |-> result, other |-> FALSE]
    IN IF pc = "idle" \/ saved # << >> THEN kept
       ELSE kept \cup {<< [last EXCEPT !.other = differs(last)] >>}

\* a call of mkBox, the first or a later one, with arguments of the pool
Call ==
    /\ pc \in {"idle", "done", "thrown"}
    /\ \E a \in PoolArgs : MkBox(a[1], a[2]) /\ saved' \in Remember(a)

\* buildGrid_ up to its first loop: routeBounds, the centre, the first two
\* latitude lines
BuildGrid ==
    /\ pc = "build"
    /\ LET l == LatLines(latGrid_, vertices, range)
       IN /\ latGrid_' = l.lines
          /\ pc' = IF l.ok THEN "north" ELSE "thrown"
    /\ gi' = 2
    /\ UNCHANGED <<pts, dis, vertices, range, grid_, lngGrid_, boxesX_, boxesY_, vi,
                   hintXY, direct, mergeLocals, result, saved, handed>>

\* for (i = 2; this.latGrid_[i - 2] < routeBounds.getNorthEast().lat; i++): one
\* test of the condition, and the body or the exit
GrowNorth ==
    /\ pc = "north"
    /\ LET rb == routeBoundsOf(vertices)
           l == GrowUp(latGrid_, getCenter(rb), North, range, gi)
       IN IF ElemLess(latGrid_, gi - 2, rb[1].ne.lat)
          THEN /\ Len(latGrid_) < MaxLines
               /\ latGrid_' = l.lines
               /\ gi' = gi + 1
               /\ pc' = IF l.ok THEN "north" ELSE "thrown"
          ELSE /\ pc' = "south"
               /\ gi' = 1
               /\ UNCHANGED latGrid_
    /\ UNCHANGED <<pts, dis, vertices, range, grid_, lngGrid_, boxesX_, boxesY_, vi,
                   hintXY, direct, mergeLocals, result, saved, handed>>

\* for (i = 1; this.latGrid_[1] > routeBounds.getSouthWest().lat; i++); on exit the
\* first two longitude lines
GrowSouth ==
    /\ pc = "south"
    /\ LET rb == routeBoundsOf(vertices)
           l == GrowDown(latGrid_, getCenter(rb), South, range, gi)
           e == LngLines(lngGrid_, vertices, range)
       IN IF ElemGreater(latGrid_, 1, rb[1].sw.lat)
          THEN /\ Len(latGrid_) < MaxLines
               /\ latGrid_' = l.lines
               /\ gi' = gi + 1
               /\ pc' = IF l.ok THEN "south" ELSE "thrown"
               /\ UNCHANGED lngGrid_
          ELSE /\ lngGrid_' = e.lines
               /\ pc' = IF e.ok THEN "east" ELSE "thrown"
               /\ gi' = 2
               /\ UNCHANGED latGrid_
    /\ UNCHANGED <<pts, dis, vertices, range, grid_, boxesX_, boxesY_, vi, hintXY,
                   direct, mergeLocals, result, saved, handed>>

\* for (i = 2; this.lngGrid_[i - 2] < routeBounds.getNorthEast().lng; i++)
GrowEast ==
    /\ pc = "east"
    /\ LET rb == routeBoundsOf(vertices)
           l == GrowUp(lngGrid_, getCenter(rb), East, range, gi)
       IN IF ElemLess(lngGrid_, gi - 2, rb[1].ne.lng)
          THEN /\ Len(lngGrid_) < MaxLines
               /\ lngGrid_' = l.lines
               /\ gi' = gi + 1
               /\ pc' = IF l.ok THEN "east" ELSE "thrown"
          ELSE /\ pc' = "west"
               /\ gi' = 1
               /\ UNCHANGED lngGrid_
    /\ UNCHANGED <<pts, dis, vertices, range, grid_, latGrid_, boxesX_, boxesY_, vi,
                   hintXY, direct, mergeLocals, result, saved, handed>>

\* for (i = 1; this.lngGrid_[1] > routeBounds.getSouthWest().lng; i++); on exit the
\* allocation of grid_
GrowWest ==
    /\ pc = "west"
    /\ LET rb == routeBoundsOf(vertices)
           l == GrowDown(lngGrid_, getCenter(rb), West, range, gi)
       IN IF ElemGreater(lngGrid_, 1, rb[1].sw.lng)
          THEN /\ Len(lngGrid_) < MaxLines
               /\ lngGrid_' = l.lines
               /\ gi' = gi + 1
               /\ pc' = IF l.ok THEN "west" ELSE "thrown"
               /\ UNCHANGED grid_
          ELSE /\ grid_' = NewGrid(Len(lngGrid_), Len(latGrid_))
               /\ pc' = "first"
               /\ UNCHANGED <<lngGrid_, gi>>
    /\ UNCHANGED <<pts, dis, vertices, range, latGrid_, boxesX_, boxesY_, vi, hintXY,
                   direct, mergeLocals, result, saved, handed>>

\* findIntersectingCells_ up to its loop: the cell of vertices[0] and its mark
FindFirst ==
    /\ pc = "first"
    /\ LET cell == getCellCoords_(lngGrid_, latGrid_, vertices[1])
           m == markCell_(Marking(grid_, TRUE), cell)
       IN /\ grid_' = m.g
          /\ hintXY' = cell
          /\ vi' = 1
          /\ direct' = m.direct
          /\ pc' = IF m.ok THEN "next" ELSE "thrown"
    /\ UNCHANGED <<pts, dis, vertices, range, latGrid_, lngGrid_, boxesX_, boxesY_, gi,
                   mergeLocals, result, saved, handed>>

\* one iteration of findIntersectingCells_'s loop, or its exit
FindNext ==
    /\ pc = "next"
    /\ IF vi < Len(vertices)
       THEN LET m == VertexStep(Marking(grid_, TRUE), lngGrid_, latGrid_, vertices,
                                vi, hintXY)
            IN /\ grid_' = m.g
               /\ hintXY' = getGridCoordsFromHint_(lngGrid_, latGrid_, vertices[vi + 1],
                                                   vertices[vi], hintXY)
               /\ vi' = vi + 1
               /\ direct' = m.direct
               /\ pc' = IF m.ok THEN "next" ELSE "thrown"
               /\ UNCHANGED <<gi, mergeLocals>>
       ELSE /\ pc' = "rows"
            /\ mx' = 0 /\ my' = 0 /\ currentBox' = NoBounds
            /\ UNCHANGED <<grid_, findLocals>>
    /\ UNCHANGED <<pts, dis, vertices, range, latGrid_, lngGrid_, boxesX_, boxesY_,
                   result, saved, handed>>

\* mergeIntersectingCells_, first traversal: the inner loop's body at cell (mx, my),
\* with the statements after the inner loop when the row ends
MergeRows ==
    /\ pc = "rows"
    /\ UNCHANGED <<pts, dis, vertices, range, grid_, latGrid_, lngGrid_, boxesX_,
                   findLocals, result, saved>>
    /\ IF my >= grid_[1].len
       THEN /\ pc' = "cols"
            /\ mx' = 0 /\ my' = 0
            /\ UNCHANGED <<boxesY_, currentBox>>
       ELSE IF IsMarked(grid_, mx, my) /\ ~CellInGrid(lngGrid_, latGrid_, <<mx, my>>)
       THEN /\ pc' = "thrown"
            /\ UNCHANGED <<boxesY_, mergeLocals>>
       ELSE LET cur == IF IsMarked(grid_, mx, my)
                       THEN GrowBox(currentBox, lngGrid_, latGrid_, <<mx, my>>)
                       ELSE NoBounds
                list == IF IsMarked(grid_, mx, my) THEN boxesY_
                        ELSE mergeBoxesY_(boxesY_, currentBox)
                last == mx + 1 >= Len(grid_)
            IN /\ boxesY_' = IF last THEN mergeBoxesY_(list, cur) ELSE list
               /\ currentBox' = IF last THEN NoBounds ELSE cur
               /\ mx' = IF last THEN 0 ELSE mx + 1
               /\ my' = IF last THEN my + 1 ELSE my
               /\ pc' = "rows"
    /\ handed' = Seen(handed, boxesX_', boxesY_')

\* mergeIntersectingCells_, second traversal: the same a column at a time
MergeCols ==
    /\ pc = "cols"
    /\ UNCHANGED <<pts, dis, vertices, range, grid_, latGrid_, lngGrid_, boxesY_,
                   findLocals, result, saved>>
    /\ IF mx >= Len(grid_)
       THEN /\ pc' = "select"
            /\ UNCHANGED <<boxesX_, mergeLocals>>
       ELSE IF IsMarked(grid_, mx, my) /\ ~CellInGrid(lngGrid_, latGrid_, <<mx, my>>)
       THEN /\ pc' = "thrown"
            /\ UNCHANGED <<boxesX_, mergeLocals>>
       ELSE LET cur == IF IsMarked(grid_, mx, my)
                       THEN GrowBox(currentBox, lngGrid_, latGrid_, <<mx, my>>)
                       ELSE NoBounds
                list == IF IsMarked(grid_, mx, my) THEN boxesX_
                        ELSE mergeBoxesX_(boxesX_, currentBox)
                last == my + 1 >= grid_[1].len
            IN /\ boxesX_' = IF last THEN mergeBoxesX_(list, cur) ELSE list
               /\ currentBox' = IF last THEN NoBounds ELSE cur
               /\ my' = IF last THEN 0 ELSE my + 1
               /\ mx' = IF last THEN mx + 1 ELSE mx
               /\ pc' = "cols"
    /\ handed' = Seen(handed, boxesX_', boxesY_')

\* box returns the shorter list and mkBox maps it to arrays
Return ==
    /\ pc = "select"
    /\ result' = ToArrays(Select(boxesX_, boxesY_))
    /\ pc' = "done"
    /\ handed' = [list |-> Select(boxesX_, boxesY_),
                   ref |-> IF Len(boxesX_) <= Len(boxesY_) THEN "boxesX_" ELSE "boxesY_"]
    /\ UNCHANGED <<pts, dis, vertices, range, fields, findLocals, mergeLocals, saved>>

Steps ==
    \/ BuildGrid
    \/ GrowNorth
    \/ GrowSouth
    \/ GrowEast
    \/ GrowWest
    \/ FindFirst
    \/ FindNext
    \/ MergeRows
    \/ MergeCols
    \/ Return

\* one call of mkBox on the freshly loaded module, with every argument
Next == FirstCall \/ Steps
Spec == Init /\ [][Next]_vars

\* call after call of mkBox on the one L.RouteBoxer object
NextCalls == Call \/ Steps
SpecCalls == Init /\ [][NextCalls]_vars

\* ---------------------------------------------------------------- geometry
\* the call under way (or over) was given a route: an array of at least 2 points
HasRoute == pts.kind = "array" /\ Len(pts.items) >= 2

\* the vertices and the range of the call, from its arguments
Route == [k \in 1..Len(pts.items) |-> LatLng(Fix(pts.items[k][1]), Fix(pts.items[k][2]))]
RangeKm == IF dis.kind = "omitted" THEN DefaultDis ELSE dis.val

\* the point (lat, lng) lies in the entry b of the value mkBox returned
InArray(b, lat, lng) ==
    /\ b[1][1] <= lat /\ lat <= b[2][1]
    /\ b[1][2] <= lng /\ lng <= b[2][2]
InResult(lat, lng) == \E k \in 1..Len(result) : InArray(result[k], lat, lng)

\* the point q = (lat, lng) is within r of the segment from a to b: with
\* s = (q - a).(b - a) and L = |b - a|^2, the nearest point of the segment is a when
\* s <= 0, b when s >= L, and the foot of the perpendicular otherwise
NearSegment(lat, lng, a, b, r) ==
    LET ux == b.lng - a.lng
        uy == b.lat - a.lat
        wx == lng - a.lng
        wy == lat - a.lat
        s == wx * ux + wy * uy
        L == ux * ux + uy * uy
    IN IF s <= 0 THEN wx * wx + wy * wy <= r * r
       ELSE IF s >= L THEN (lng - b.lng) * (lng - b.lng) + (lat - b.lat) * (lat - b.lat) <= r * r
       ELSE (wx * wx + wy * wy) * L - s * s <= r * r * L
NearRoute(lat, lng) ==
    \E k \in 1..(Len(Route) - 1) : NearSegment(lat, lng, Route[k], Route[k + 1], RangeKm)

\* the points the coverage is sampled at: every half unit around the route
SampleLats == (0 - RangeKm)..(Fix(MaxLat) + RangeKm)
SampleLngs == (0 - RangeKm)..(Fix(MaxLng) + RangeKm)

BufferCovered ==
    \A lat \in SampleLats, lng \in SampleLngs : NearRoute(lat, lng) => InResult(lat, lng)
VerticesCovered ==
    \A k \in 1..Len(Route) : InResult(Route[k].lat, Route[k].lng)

\* a call that returned covers the buffer of its route and the route's vertices
ReturnedCoversBuffer == (pc = "done" /\ HasRoute) => BufferCovered
ReturnedCoversVertices == (pc = "done" /\ HasRoute) => VerticesCovered

\* the call is over
Over == pc \in {"done", "thrown"}

\* the call was given a point with a latitude or a longitude that is not a number
HasNaN == \E k \in 1..Len(pts.items) : pts.items[k][1] = NaN \/ pts.items[k][2] = NaN

\* ---------------------------------------------------------------- claims
\* C1: for every route of at least 2 vertices and every positive range, the call
\* returns a list of boxes, and every point within range of the route is inside at
\* least one of them.
C1_BufferCovered == (Over /\ HasRoute) => (pc = "done" /\ BufferCovered)

\* C2: for every input of at least 2 points and a positive distance mkBox returns
\* normally and every input vertex lies inside (boundary included) at least one
\* returned box, coincident vertices and vertices on a grid line included.
C2_VerticesCovered == (Over /\ HasRoute) => (pc = "done" /\ VerticesCovered)

\* C3: when pts is omitted, null, empty or has fewer than 2 entries, mkBox returns
\* an empty list and raises no error.
C3_ShortInputEmpty == (pc # "idle" /\ ~HasRoute) => (pc = "done" /\ result = << >>)
C3_Witness == pc = "done" /\ pts.kind = "array" /\ Len(pts.items) = 1

\* C4: a call of mkBox with the arguments of an earlier call ends as that call did
\* (returns a deep-equal list, or throws as it threw), whatever calls were made in
\* between.
C4_SameArgsSameResult ==
    (Over /\ saved # << >> /\ saved[1].pts = pts /\ saved[1].dis = dis)
        => (saved[1].pc = pc /\ saved[1].result = result)
C4_Witness ==
    /\ pc = "done" /\ saved # << >>
    /\ saved[1].pts = pts /\ saved[1].dis = dis
    /\ saved[1].other /\ Len(result) > 1

\* C5: grid lines, mark matrix and merge lists belong to one invocation: between
\* calls the fields of L.RouteBoxer hold nothing of the call that ended.
C5_NothingPersists ==
    pc \in {"idle", "done", "thrown"} =>
        /\ grid_ = NullGrid /\ latGrid_ = << >> /\ lngGrid_ = << >>
        /\ boxesX_ = << >> /\ boxesY_ = << >>

\* the two cover lists: the row traversal (cells merged along a row, then rows
\* merged by mergeBoxesY_) fills boxesY_, the column traversal fills boxesX_
RowFirst == boxesY_
ColumnFirst == boxesX_

C7_ShortestReturned ==
    (pc = "done" /\ HasRoute) =>
        /\ result = ToArrays(RowFirst) \/ result = ToArrays(ColumnFirst)
        /\ Len(result) = Min(Len(RowFirst), Len(ColumnFirst))
C7_Witness == pc = "done" /\ HasRoute /\ Len(RowFirst) < Len(ColumnFirst)

\* C8: mkBox takes its distance in meters: the range the core receives, in
\* kilometers, is the distance divided by 1000.
C8_RangeIsMetersOver1000 ==
    (HasRoute /\ pc \notin {"idle", "done", "thrown"}) => range * 1000 = RangeKm

\* C9: every box of either cover list, the box under way of a sweep and the boxes
\* returned have their south-west corner south-west of their north-east corner.
WellFormed(b) == b.sw.lat <= b.ne.lat /\ b.sw.lng <= b.ne.lng
C9_BoxesWellFormed ==
    /\ \A k \in 1..Len(boxesX_) : WellFormed(boxesX_[k])
    /\ \A k \in 1..Len(boxesY_) : WellFormed(boxesY_[k])
    /\ currentBox # NoBounds => WellFormed(currentBox[1])
    /\ \A k \in 1..Len(result) :
          result[k][1][1] <= result[k][2][1] /\ result[k][1][2] <= result[k][2][2]
C9_Witness ==
    /\ pc = "cols" /\ currentBox # NoBounds
    /\ Len(boxesX_) > 1 /\ Len(boxesY_) > 1
    /\ currentBox[1].sw.lat < currentBox[1].ne.lat

\* the cells of the mark matrix that are marked
MarkedCells ==
    {c \in (0..(Len(grid_) - 1)) \X (0..(Len(latGrid_) - 1)) : IsMarked(grid_, c[1], c[2])}
\* the cell c lies inside the box b
CellInside(c, b) ==
    /\ CellInGrid(lngGrid_, latGrid_, c)
    /\ b.sw.lat <= latGrid_[c[2] + 1] /\ latGrid_[c[2] + 2] <= b.ne.lat
    /\ b.sw.lng <= lngGrid_[c[1] + 1] /\ lngGrid_[c[1] + 2] <= b.ne.lng

C11_NaNFailsFast ==
    [][(pc \in {"idle", "done", "thrown"} /\ HasRoute' /\ HasNaN')
          => (pc' = "thrown" /\ result' = << >> /\ UNCHANGED <<fields, vertices, range>>)]_vars
C11_Witness ==
    /\ pc = "thrown" /\ HasRoute /\ HasNaN
    /\ grid_ # NullGrid /\ Len(boxesX_) > 1

\* the statement buildGrid_ is about to run reads a line of a null destination point
NextLineIsNull ==
    LET rb == routeBoundsOf(vertices)
        c == getCenter(rb)
    IN \/ pc = "build" /\ rhumbDestinationPoint(c, North, range) = NullLatLng
       \/ /\ pc = "north" /\ ElemLess(latGrid_, gi - 2, rb[1].ne.lat)
          /\ rhumbDestinationPoint(c, North, range * gi) = NullLatLng
       \/ /\ pc = "south" /\ ElemGreater(latGrid_, 1, rb[1].sw.lat)
          /\ rhumbDestinationPoint(c, South, range * gi) = NullLatLng

\* C12: when rhumbDestinationPoint gives null while buildGrid_ extends the grid
\* lines, buildGrid_ stops extending in that direction: the null is not
\* dereferenced, no line is stored for it, and the call does not fail.
C12_NullStopsGrowth ==
    [][NextLineIsNull => (pc' # "thrown" /\ UNCHANGED latGrid_)]_vars

\* the list RouteBoxer.box returned to mkBox
Chosen == IF Len(boxesX_) <= Len(boxesY_) THEN boxesX_ ELSE boxesY_

\* C13: mkBox returns one entry per box of the list the core chose, in the same
\* order, the entry of a box being [[sw.lat, sw.lng], [ne.lat, ne.lng]].
C13_OneEntryPerBox ==
    (pc = "done" /\ HasRoute) =>
        /\ Len(result) = Len(Chosen)
        /\ \A k \in 1..Len(Chosen) :
              /\ Len(result[k]) = 2 /\ Len(result[k][1]) = 2 /\ Len(result[k][2]) = 2
              /\ result[k][1][1] = Chosen[k].sw.lat /\ result[k][1][2] = Chosen[k].sw.lng
              /\ result[k][2][1] = Chosen[k].ne.lat /\ result[k][2][2] = Chosen[k].ne.lng
C13_Witness ==
    /\ pc = "done" /\ HasRoute /\ Len(result) >= 2
    /\ result[1] # result[2] /\ result[1][1][1] # result[1][1][2]

\* the loop to the east is running and its condition holds at every test to come:
\* the lines already pushed that it has yet to test, and the lines it will push
\* (a line depends on range * i modulo a full turn, so 2 Pi values of i show them
\* all), are all west of the east edge of the route
EastLoopNeverExits ==
    LET rb == routeBoundsOf(vertices)
        c == getCenter(rb)
    IN /\ pc = "east"
       /\ \A k \in (gi - 2)..(Len(lngGrid_) - 1) : lngGrid_[k + 1] < rb[1].ne.lng
       /\ \A i \in gi..(gi + 2 * Pi - 1) :
             rhumbDestinationPoint(c, East, range * i).lng < rb[1].ne.lng

\* C15: every call of mkBox with at least 2 valid points and a positive distance
\* terminates: the four growth loops of buildGrid_, the cell searches, the
\* rasterisation and the two merge sweeps all come to an end.  Hence no call
\* reaches a state in which the condition of a growth loop holds for ever.
C15_LoopsCanExit == ~EastLoopNeverExits

\* the numbers of a sequence are strictly ascending
Ascending(a) == \A k \in 1..(Len(a) - 1) : a[k] < a[k + 1]
\* v is an element of the sequence a
Contains(a, v) == \E k \in 1..Len(a) : a[k] = v
\* the bounding box of the route and its centre, from the arguments of the call
RouteSouth == CHOOSE v \in {Route[k].lat : k \in 1..Len(Route)} :
                 \A k \in 1..Len(Route) : v <= Route[k].lat
RouteNorth == CHOOSE v \in {Route[k].lat : k \in 1..Len(Route)} :
                 \A k \in 1..Len(Route) : v >= Route[k].lat
RouteWest == CHOOSE v \in {Route[k].lng : k \in 1..Len(Route)} :
                \A k \in 1..Len(Route) : v <= Route[k].lng
RouteEast == CHOOSE v \in {Route[k].lng : k \in 1..Len(Route)} :
                \A k \in 1..Len(Route) : v >= Route[k].lng

\* buildGrid_ has just returned
GridBuilt == pc = "first"

\* the grid lines of one axis: ascending, through the centre, beyond both edges
LinesInOrder(lines, low, high) ==
    /\ Ascending(lines)
    /\ Contains(lines, (low + high) \div 2)
    /\ lines[1] < low /\ lines[Len(lines)] > high

\* C16: after buildGrid_ the latitude lines and the longitude lines are strictly
\* ascending, contain the coordinate of the centre of the route's bounding box, and
\* have their first line below the south (west) edge of the bounding box and their
\* last line above its north (east) edge.
C16_GridLinesInOrder ==
    GridBuilt =>
        /\ LinesInOrder(latGrid_, RouteSouth, RouteNorth)
        /\ LinesInOrder(lngGrid_, RouteWest, RouteEast)

\* the mark matrix has cols columns of rows entries each, none of them marked
MatrixIs(cols, rows) ==
    /\ Len(grid_) = cols
    /\ \A x \in 1..Len(grid_) : grid_[x].len = rows /\ grid_[x].ones = {}

\* C17, as claimed: after buildGrid_ the mark matrix has (#lngLines - 1) columns
\* and (#latLines - 1) rows, one entry per cell, all unmarked.
C17_OneEntryPerCell == GridBuilt => MatrixIs(Len(lngGrid_) - 1, Len(latGrid_) - 1)

\* C17, amended: after buildGrid_ the mark matrix has #lngLines columns and
\* #latLines rows, one entry per grid line of either axis (one column and one row
\* more than there are cells), all unmarked.
C17_OneEntryPerLine == GridBuilt => MatrixIs(Len(lngGrid_), Len(latGrid_))
C17_Witness ==
    /\ GridBuilt /\ Len(lngGrid_) > 3 /\ Len(latGrid_) > Len(lngGrid_)
    /\ MatrixIs(Len(lngGrid_), Len(latGrid_))

\* all the vertices of the route are one point
AllCoincide == \A k \in 1..Len(Route) : Route[k] = Route[1]
\* the number of cells the grid lines bound
CellCount == (Len(lngGrid_) - 1) * (Len(latGrid_) - 1)

RECURSIVE LocatedCell(_)
LocatedCell(k) ==
    IF k = 1 THEN getCellCoords_(lngGrid_, latGrid_, vertices[1])
    ELSE getGridCoordsFromHint_(lngGrid_, latGrid_, vertices[k], vertices[k - 1],
                                LocatedCell(k - 1))

\* the cell and its 8 neighbours are marked
NineMarked(cell) ==
    \A dx \in -1..1, dy \in -1..1 : IsMarked(grid_, cell[1] + dx, cell[2] + dy)

\* findIntersectingCells_ has just returned
CellsFound == pc = "rows" /\ mx = 0 /\ my = 0

\* C19: after findIntersectingCells_ the cell located for each vertex, the first one
\* and every later one, and the 8 cells around it are marked.
C19_VertexCellsMarked ==
    CellsFound => \A k \in 1..Len(vertices) : NineMarked(LocatedCell(k))
C19_Witness ==
    /\ CellsFound /\ Len(vertices) = 3
    /\ SharesEdge(LocatedCell(1), LocatedCell(2))
    /\ ~SameCell(LocatedCell(2), LocatedCell(3))
    /\ ~SharesEdge(LocatedCell(2), LocatedCell(3))
    /\ NineMarked(LocatedCell(3))

\* the loop of findIntersectingCells_ has just handled the segment that ends at
\* vertex vi (counted from 1), by getGridIntersects_: its cells are neither the
\* same nor neighbours across an edge
StartCell == LocatedCell(vi - 1)
EndCell == LocatedCell(vi)
SegmentRasterised ==
    /\ pc = "next" /\ vi >= 2
    /\ ~SameCell(StartCell, EndCell) /\ ~SharesEdge(StartCell, EndCell)

\* the columns of the cells of row y that markCell_ was called for
Run(y) == {c[1] : c \in {d \in direct : d[2] = y}}
\* a set of columns without a gap
Contiguous(R) == \A a \in R, b \in R : \A x \in a..b : x \in R

\* C20: after getGridIntersects_, every row from the row of the start cell to the
\* row of the end cell has a run of directly marked cells without a gap, the run of
\* the first row holds the start cell, the run of the last row holds the end cell,
\* and the runs of two consecutive rows share a column: the directly marked cells
\* are a chain, connected across edges, from the start cell to the end cell; for
\* segments to the north, to the south and within one row alike.
C20_ChainOfCells ==
    SegmentRasterised =>
        LET lo == Min(StartCell[2], EndCell[2])
            hi == Max(StartCell[2], EndCell[2])
        IN /\ \A y \in lo..hi : Run(y) # {} /\ Contiguous(Run(y))
           /\ StartCell[1] \in Run(StartCell[2])
           /\ EndCell[1] \in Run(EndCell[2])
           /\ \A y \in lo..(hi - 1) : Run(y) \cap Run(y + 1) # {}
           /\ \A d \in direct : d[2] \in lo..hi
C20_Witness ==
    /\ SegmentRasterised
    /\ EndCell[2] > StartCell[2] + 1 /\ EndCell[1] < StartCell[1] - 1
    /\ Cardinality(Run(StartCell[2])) > 1
\* the same to the south, and within one row
C20_WitnessSouth == SegmentRasterised /\ EndCell[2] < StartCell[2] - 1 /\ Cardinality(direct) > 3
C20_WitnessRow == SegmentRasterised /\ EndCell[2] = StartCell[2]

\* the row traversal is at cell (mx, my), and the statement it runs there hands a
\* finished horizontal run to mergeBoxesY_: the box under way when the cell is not
\* marked, the box under way widened by the cell when the cell is marked and the
\* last of its row; NoBounds when no run is finished
RowRun ==
    IF pc # "rows" \/ my >= grid_[1].len THEN NoBounds
    ELSE IF ~IsMarked(grid_, mx, my) THEN currentBox
    ELSE IF mx + 1 >= Len(grid_) /\ CellInGrid(lngGrid_, latGrid_, <<mx, my>>)
    THEN << [sw |-> IF currentBox # NoBounds THEN currentBox[1].sw
                    ELSE LatLng(latGrid_[my + 1], lngGrid_[mx + 1]),
             ne |-> LatLng(latGrid_[my + 2], lngGrid_[mx + 2])] >>
    ELSE NoBounds

\* the boxes of the row-first list the run r sits on: same west and east edges, and
\* their north edge is the south edge of r
BoxesBelow(r) ==
    {i \in 1..Len(RowFirst) :
        /\ RowFirst[i].sw.lng = r.sw.lng /\ RowFirst[i].ne.lng = r.ne.lng
        /\ RowFirst[i].ne.lat = r.sw.lat}

\* the step of the row traversal that finishes a run merges it or appends it
RunMergedOrAppended ==
    RowRun # NoBounds =>
        LET r == RowRun[1]
        IN /\ Cardinality(BoxesBelow(r)) <= 1
           /\ BoxesBelow(r) = {} => RowFirst' = Append(RowFirst, r)
           /\ \A i \in BoxesBelow(r) :
                 RowFirst' = [RowFirst EXCEPT ![i] = [sw |-> @.sw, ne |-> r.ne]]

\* the cells a..b of row y are a whole run of marked cells
WholeRun(y, a, b) ==
    /\ a <= b /\ \A x \in a..b : IsMarked(grid_, x, y)
    /\ ~IsMarked(grid_, a - 1, y) /\ ~IsMarked(grid_, b + 1, y)

\* the row traversal has just ended
RowsMerged == pc = "cols" /\ mx = 0 /\ my = 0 /\ ColumnFirst = << >>

\* two whole runs of the same columns in consecutive rows are in one box
SameSpanSameBox ==
    RowsMerged =>
        \A y \in 0..(Len(latGrid_) - 3), a \in 0..(Len(lngGrid_) - 2), b \in 0..(Len(lngGrid_) - 2) :
            (WholeRun(y, a, b) /\ WholeRun(y + 1, a, b)) =>
                \E k \in 1..Len(RowFirst) :
                    CellInside(<<a, y>>, RowFirst[k]) /\ CellInside(<<b, y + 1>>, RowFirst[k])

\* C21: in the row-first pass a finished horizontal run is merged into a box of the
\* row-first list exactly when that box has the west and east edges of the run and
\* its north edge is the south edge of the run; there is at most one such box;
\* otherwise the run is appended at the end of the list.  Hence two runs of the
\* same columns in consecutive rows end up in one box.
C21_RunsMergeByExactEdges == [][RunMergedOrAppended]_vars /\ []SameSpanSameBox
C21_Witness ==
    /\ RowRun # NoBounds /\ RowRun[1].sw.lng < RowRun[1].ne.lng - 1
    /\ BoxesBelow(RowRun[1]) # {} /\ Len(RowFirst) > 1

\* what the row sweep makes of a mark matrix g and grid lines, started at cell
\* (x, y) with the box cur under way and the list so far
RECURSIVE RowSweep(_, _, _, _, _, _, _)
RowSweep(g, lngs, lats, x, y, cur, list) ==
    IF y >= g[1].len THEN list
    ELSE IF x >= Len(g) THEN RowSweep(g, lngs, lats, 0, y + 1, NoBounds, mergeBoxesY_(list, cur))
    ELSE IF IsMarked(g, x, y)
    THEN RowSweep(g, lngs, lats, x + 1, y, GrowBox(cur, lngs, lats, <<x, y>>), list)
    ELSE RowSweep(g, lngs, lats, x + 1, y, NoBounds, mergeBoxesY_(list, cur))

\* the same for the column sweep
RECURSIVE ColSweep(_, _, _, _, _, _, _)
ColSweep(g, lngs, lats, x, y, cur, list) ==
    IF x >= Len(g) THEN list
    ELSE IF y >= g[1].len THEN ColSweep(g, lngs, lats, x + 1, 0, NoBounds, mergeBoxesX_(list, cur))
    ELSE IF IsMarked(g, x, y)
    THEN ColSweep(g, lngs, lats, x, y + 1, GrowBox(cur, lngs, lats, <<x, y>>), list)
    ELSE ColSweep(g, lngs, lats, x, y + 1, NoBounds, mergeBoxesX_(list, cur))

\* what a step may write: grid building leaves no mark, the merge step leaves the
\* mark matrix and the grid lines alone, and each sweep leaves the other's list alone
MergeFrame ==
    /\ pc \in {"build", "north", "south", "east", "west"} =>
          \A x \in 1..Len(grid_') : grid_'[x].ones = {}
    /\ pc \in {"rows", "cols", "select"} => UNCHANGED <<grid_, latGrid_, lngGrid_>>
    /\ pc = "rows" => UNCHANGED boxesX_
    /\ pc = "cols" => UNCHANGED boxesY_
    /\ pc \notin {"first", "next"} => MarkedCells' \subseteq MarkedCells \/ grid_' = NullGrid

\* after the merge step each list is what its sweep makes of the mark matrix and the
\* grid lines, whatever the calls before left behind
ListsFromMarks ==
    pc = "select" =>
        /\ boxesY_ = RowSweep(grid_, lngGrid_, latGrid_, 0, 0, NoBounds, << >>)
        /\ boxesX_ = ColSweep(grid_, lngGrid_, latGrid_, 0, 0, NoBounds, << >>)

\* C22: only the rasterisation (markCell_) marks: grid building leaves the mark
\* matrix unmarked, the merge step leaves the mark matrix and both sequences of
\* grid lines unchanged, each sweep writes its own list only, and each list is a
\* function of the mark matrix and the grid lines alone.
C22_MergeFrame == [][MergeFrame]_vars /\ []ListsFromMarks
C22_Witness ==
    /\ pc = "select" /\ saved # << >> /\ Len(saved[1].result) > 1
    /\ Len(boxesX_) > 1 /\ ToArrays(boxesX_) # saved[1].result
    /\ ToArrays(boxesY_) # saved[1].result

\* the entries of the mark matrix g that hold 1, as <<column, index>> pairs
Marks(g) == {c \in (0..(Len(g) - 1)) \X (-1..MaxLines) : c[2] \in g[c[1] + 1].ones}
\* the cell and the 8 cells around it
Nine(cell) == {<<cell[1] + dx, cell[2] + dy>> : dx \in -1..1, dy \in -1..1}
\* the cells differ by exactly 1 in exactly one axis
EdgeAdjacent(a, b) == Abs(a[1] - b[1]) + Abs(a[2] - b[2]) = 1

\* what the loop of findIntersectingCells_ does for the vertex it is at: hintXY is
\* the cell of the vertex before, hintXY' the cell the hinted search finds
VertexFrame ==
    (pc = "next" /\ vi < Len(vertices)) =>
        /\ hintXY' = hintXY => (grid_' = grid_ /\ direct' = {} /\ pc' = "next")
        /\ (EdgeAdjacent(hintXY, hintXY') /\ pc' = "next") =>
              (Marks(grid_') = Marks(grid_) \cup Nine(hintXY') /\ direct' = {hintXY'})
        /\ (hintXY' # hintXY /\ ~EdgeAdjacent(hintXY, hintXY') /\ pc' = "next") =>
              (hintXY \in direct' /\ hintXY' \in direct')

\* C23: a vertex i >= 1 that the hinted search puts in the cell of vertex i - 1
\* leaves the mark matrix unchanged; one that it puts in a cell across an edge
\* (off by 1 in exactly one axis) marks that cell and the 8 cells around it and
\* nothing else; in the remaining case, and only then, the segment is rasterised.
C23_VertexBranches == [][VertexFrame]_vars
C23_Witness ==
    /\ pc = "next" /\ vi = 3 /\ direct = {hintXY}
    /\ EdgeAdjacent(LocatedCell(2), hintXY) /\ LocatedCell(1) = LocatedCell(2)
    /\ Marks(grid_) # Nine(hintXY)

\* C24: every longitude that rhumbDestinationPoint returns lies in (-180, 180],
\* moves west across -180 and east across +180 included: here for the longitude
\* lines of the grid, which are the centre's longitude and the longitudes that
\* rhumbDestinationPoint returned to buildGrid_.
C24_LngNormalised ==
    \A k \in 1..Len(lngGrid_) : lngGrid_[k] > -Pi /\ lngGrid_[k] <= Pi

\* the boxes of the list come by ascending west edge, then ascending south edge
ByWestThenSouth(list) ==
    \A i \in 1..Len(list), j \in 1..Len(list) :
        i < j => \/ list[i].sw.lng < list[j].sw.lng
                 \/ list[i].sw.lng = list[j].sw.lng /\ list[i].sw.lat < list[j].sw.lat
\* the boxes of the list come by ascending south edge, then ascending west edge
BySouthThenWest(list) ==
    \A i \in 1..Len(list), j \in 1..Len(list) :
        i < j => \/ list[i].sw.lat < list[j].sw.lat
                 \/ list[i].sw.lat = list[j].sw.lat /\ list[i].sw.lng < list[j].sw.lng
\* every box of the list stays at its index with its south-west corner
KeepsPlaces(list, next) ==
    /\ Len(next) >= Len(list)
    /\ \A k \in 1..Len(list) : next[k].sw = list[k].sw
\* a step of a sweep neither moves a box nor changes its south-west corner
SweepKeepsPlaces ==
    (pc \in {"rows", "cols"} /\ pc' \in {"rows", "cols", "select"}) =>
        KeepsPlaces(RowFirst, RowFirst') /\ KeepsPlaces(ColumnFirst, ColumnFirst')
ListsSorted == ByWestThenSouth(ColumnFirst) /\ BySouthThenWest(RowFirst)

\* C25: the returned list is in the order in which its sweep created the boxes,
\* which is a sorted order: the column-first list by ascending west edge, then
\* ascending south edge, the row-first list by ascending south edge, then
\* ascending west edge; a later run merged into a box neither moves the box in
\* its list nor changes its south-west corner.  Stated for the list that box is
\* about to return.
C25_ReturnedListSorted ==
    pc = "select" =>
        IF Len(ColumnFirst) <= Len(RowFirst)
        THEN ByWestThenSouth(ColumnFirst) ELSE BySouthThenWest(RowFirst)

\* C26: every index that markCell_ writes is the index of a cell: the column lies
\* in [0, #lngGrid_ - 2] and the row in [0, #latGrid_ - 2]; nothing is written at
\* -1 or beyond the last line, a vertex on the grid line where the growth to the
\* south or to the west stopped included.
C26_MarksAreCells ==
    \A c \in Marks(grid_) :
        c[1] \in 0..(Len(lngGrid_) - 2) /\ c[2] \in 0..(Len(latGrid_) - 2)

\* C27: the cell that getGridCoordsFromHint_ finds for a vertex from the cell of
\* the vertex before it is the cell that getCellCoords_ finds for it by brute
\* force, a vertex exactly on a grid line included, from either direction.
C27_HintFindsSameCell ==
    (pc = "next" /\ vi >= 1) => hintXY = getCellCoords_(lngGrid_, latGrid_, vertices[vi])

\* the cells of the grid
Cells == (0..(Len(lngGrid_) - 2)) \X (0..(Len(latGrid_) - 2))
\* the boxes a and b share more than an edge
Overlap(a, b) ==
    /\ a.sw.lng < b.ne.lng /\ b.sw.lng < a.ne.lng
    /\ a.sw.lat < b.ne.lat /\ b.sw.lat < a.ne.lat
\* the boxes of the list split the marked cells: a marked cell lies in exactly one
\* box, an unmarked cell in none, and no two boxes overlap
Partition(list) ==
    /\ \A c \in Cells :
          Cardinality({k \in 1..Len(list) : CellInside(c, list[k])})
              = IF IsMarked(grid_, c[1], c[2]) THEN 1 ELSE 0
    /\ \A i \in 1..Len(list), j \in 1..Len(list) : i # j => ~Overlap(list[i], list[j])

\* C28: each of the two lists is an exact partition of the marked cells: every
\* marked cell lies in exactly one box of each list, boxes of one list never
\* overlap, and no box contains an unmarked cell.
C28_ExactPartition == pc = "select" => (Partition(RowFirst) /\ Partition(ColumnFirst))

\* C29: what a call returned is never modified by a later call, since every call
\* installs new arrays: the list that box returned changes in no step of a later
\* call (handed.list is that list as its holder sees it), and the arrays that
\* mkBox returned, which it builds with map, stay as the caller remembered them.
C29_ResultsNotModified ==
    [][/\ pc # "select" => handed'.list = handed.list
       /\ (saved # << >> /\ pc \notin {"idle", "done", "thrown"})
             => (saved' # << >> /\ saved'[1].result = saved[1].result)]_vars
C29_Witness ==
    /\ pc = "cols" /\ Len(boxesX_) > 0 /\ Len(handed.list) > 1
    /\ saved # << >> /\ Len(saved[1].result) > 1
    /\ handed.list # RowFirst /\ handed.list # ColumnFirst

====
